---- MODULE Spec2Model ----
(***************************************************************************)
(* Verification reporters of rally                                         *)
(* (rally/plugins/common/verification/reporters.py): JSONReporter,         *)
(* HTMLReporter and HTMLStaticReporter.                                    *)
(*                                                                         *)
(* Representation of Python values:                                        *)
(*   - a str is a sequence of one-character strings ("" is <<>>);          *)
(*   - None is the one-element sequence <<"None">>, which is no str        *)
(*     because its element is not a single character;                      *)
(*   - a dict is a function from its keys to its values; an absent key is  *)
(*     absent from the DOMAIN;                                             *)
(*   - a number that is a duration is [num |-> n], n counted in units of   *)
(*     0.0001 s; the other values a "duration" field can take are the str  *)
(*     [str |-> s] and the formatted comparison [text, plus, diff];        *)
(*   - a call that raises gives [raise |-> <the exception>].               *)
(*                                                                         *)
(* The variable python is the major version of the interpreter, 2 or 3:    *)
(* OrderedDict.keys() is a list under the one and a view, which json.dumps *)
(* rejects, under the other, and \d of SKIP_RE is the ASCII digits under   *)
(* the one and every Unicode decimal digit under the other.  Operators     *)
(* whose result depends on the interpreter take its version as their last  *)
(* parameter.                                                              *)
(***************************************************************************)
EXTENDS Integers, Sequences, FiniteSets, TLC

VARIABLES verifications, output_destination, python, results, calls

vars == <<verifications, output_destination, python, results, calls>>

-----------------------------------------------------------------------------
(* Python values and built-ins used by the reporters.                      *)

None == <<"None">>

EmptyDict == <<>>

Get(d, key, default) == IF key \in DOMAIN d THEN d[key] ELSE default

Put(d, key, value) ==
    [k \in DOMAIN d \cup {key} |-> IF k = key THEN value ELSE d[k]]

Truthy(v) == v # None /\ v # <<>>

Num(n) == [num |-> n]

Str(s) == [str |-> s]

Float(v) == IF "num" \in DOMAIN v THEN v.num ELSE 0

Reverse(s) == [i \in 1..Len(s) |-> s[Len(s) + 1 - i]]

StartsWith(s, p) == Len(s) >= Len(p) /\ SubSeq(s, 1, Len(p)) = p

\* The characters str.strip() removes from text (unicode under Python 2, str
\* under Python 3): space, \n, \t, \r, \f, and, written below as the
\* characters themselves, U+000B, U+001C, U+001D, U+001E, U+001F, U+0085,
\* U+00A0 and U+1680.  The other characters strip() removes (U+2000 to
\* U+200A, U+2028, U+2029, U+202F, U+205F, U+3000, and U+180E under
\* Python 2 only) cannot be written in a string of this language.
Whitespace ==
    {" ", "\n", "\t", "\r", "\f",
     "", "", "", "", "", "", " ", " "}

\* U+000B, a character strip() removes.
VerticalTab == ""

\* U+1680 OGHAM SPACE MARK, a character strip() removes.
OghamSpace == " "

AsciiDigits == {"0", "1", "2", "3", "4", "5", "6", "7", "8", "9"}

\* The decimal digits (category Nd) beyond ASCII that a string of this
\* language can hold, one row per script, ZERO to NINE: U+06F0 extended
\* Arabic-Indic, U+07C0 NKo, U+09E6 Bengali, U+0AE6 Gujarati, U+0BE6 Tamil,
\* U+0CE6 Kannada, U+0DE6 Sinhala Lith, U+0ED0 Lao, U+1090 Myanmar Shan,
\* U+17E0 Khmer, U+19D0 New Tai Lue, U+1A80 Tai Tham Hora, U+1A90 Tai Tham
\* Tham, U+1BB0 Sundanese, U+A8D0 Saurashtra, U+A9D0 Javanese, U+A9F0
\* Myanmar Tai Laing, U+ABF0 Meetei Mayek.
UnicodeDigits ==
       {"۰", "۱", "۲", "۳", "۴", "۵", "۶", "۷", "۸", "۹"} \cup
       {"߀", "߁", "߂", "߃", "߄", "߅", "߆", "߇", "߈", "߉"} \cup
       {"০", "১", "২", "৩", "৪", "৫", "৬", "৭", "৮", "৯"} \cup
       {"૦", "૧", "૨", "૩", "૪", "૫", "૬", "૭", "૮", "૯"} \cup
       {"௦", "௧", "௨", "௩", "௪", "௫", "௬", "௭", "௮", "௯"} \cup
       {"೦", "೧", "೨", "೩", "೪", "೫", "೬", "೭", "೮", "೯"} \cup
       {"෦", "෧", "෨", "෩", "෪", "෫", "෬", "෭", "෮", "෯"} \cup
       {"໐", "໑", "໒", "໓", "໔", "໕", "໖", "໗", "໘", "໙"} \cup
       {"႐", "႑", "႒", "႓", "႔", "႕", "႖", "႗", "႘", "႙"} \cup
       {"០", "១", "២", "៣", "៤", "៥", "៦", "៧", "៨", "៩"} \cup
       {"᧐", "᧑", "᧒", "᧓", "᧔", "᧕", "᧖", "᧗", "᧘", "᧙"} \cup
       {"᪀", "᪁", "᪂", "᪃", "᪄", "᪅", "᪆", "᪇", "᪈", "᪉"} \cup
       {"᪐", "᪑", "᪒", "᪓", "᪔", "᪕", "᪖", "᪗", "᪘", "᪙"} \cup
       {"᮰", "᮱", "᮲", "᮳", "᮴", "᮵", "᮶", "᮷", "᮸", "᮹"} \cup
       {"꣐", "꣑", "꣒", "꣓", "꣔", "꣕", "꣖", "꣗", "꣘", "꣙"} \cup
       {"꧐", "꧑", "꧒", "꧓", "꧔", "꧕", "꧖", "꧗", "꧘", "꧙"} \cup
       {"꧰", "꧱", "꧲", "꧳", "꧴", "꧵", "꧶", "꧷", "꧸", "꧹"} \cup
       {"꯰", "꯱", "꯲", "꯳", "꯴", "꯵", "꯶", "꯷", "꯸", "꯹"}

\* U+17E1 KHMER DIGIT ONE.
KhmerOne == "១"

\* Line 23: the characters \d matches.  SKIP_RE is compiled from a str with
\* no flags: under Python 2 that is the ASCII digits, under Python 3 every
\* Unicode decimal digit.
Digits(version) ==
    IF version = 3 THEN AsciiDigits \cup UnicodeDigits ELSE AsciiDigits

RECURSIVE LStrip(_)
LStrip(s) ==
    IF s # <<>> /\ Head(s) \in Whitespace THEN LStrip(Tail(s)) ELSE s

Strip(s) == Reverse(LStrip(Reverse(LStrip(s))))

-----------------------------------------------------------------------------
(* SKIP_RE and LP_BUG_LINK.                                                *)

SkipHead ==
    <<"S", "k", "i", "p", "p", "e", "d", " ", "u", "n", "t", "i", "l", " ",
      "B", "u", "g", ":">>

SkipTail == <<" ", "i", "s", " ", "r", "e", "s", "o", "l", "v", "e", "d">>

LP_BUG_LINK(number) ==
    <<"h", "t", "t", "p", "s", ":", "/", "/", "l", "a", "u", "n", "c", "h",
      "p", "a", "d", ".", "n", "e", "t", "/", "b", "u", "g", "s", "/">>
    \o number

\* The longest run of digits at the start of s (\d+ is greedy).
RECURSIVE DigitRun(_, _)
DigitRun(s, version) ==
    IF s # <<>> /\ Head(s) \in Digits(version)
    THEN <<Head(s)>> \o DigitRun(Tail(s), version)
    ELSE <<>>

Drop(s, n) == SubSeq(s, n + 1, Len(s))

\* SKIP_RE.match(reason): the bug_number group, or None when the pattern
\* does not match at the start of the reason.  " ?" takes a space when one
\* follows "Bug:", \d+ takes the whole digit run (giving digits back never
\* helps: the next pattern character is a space), and the final "." is any
\* character but a newline.
SKIP_RE_match(reason, version) ==
    IF ~StartsWith(reason, SkipHead) THEN None
    ELSE LET r1 == Drop(reason, Len(SkipHead))
             r2 == IF r1 # <<>> /\ Head(r1) = " " THEN Tail(r1) ELSE r1
             number == DigitRun(r2, version)
             r3 == Drop(r2, Len(number))
         IN  IF number # <<>>
                /\ StartsWith(r3, SkipTail)
                /\ Len(r3) > Len(SkipTail)
                /\ r3[Len(SkipTail) + 1] # "\n"
             THEN number
             ELSE None

\* re.sub(pattern, repl, s) for a pattern that is a string of digits: every
\* non-overlapping occurrence, scanning from the left, is replaced.
RECURSIVE re_sub(_, _, _)
re_sub(pattern, repl, s) ==
    IF s = <<>> THEN <<>>
    ELSE IF StartsWith(s, pattern)
         THEN repl \o re_sub(pattern, repl, Drop(s, Len(pattern)))
         ELSE <<Head(s)>> \o re_sub(pattern, repl, Tail(s))

\* Lines 79-85: the reason with the bug number rewritten into a link.
RewriteReason(reason, version) ==
    IF Truthy(reason) /\ SKIP_RE_match(reason, version) # None
    THEN re_sub(SKIP_RE_match(reason, version),
                LP_BUG_LINK(SKIP_RE_match(reason, version)), reason)
    ELSE reason

\* Line 87: the separator is chosen on the traceback before it is stripped.
Separator(reason, traceback) ==
    IF Truthy(reason) /\ Truthy(traceback) THEN <<"\n", "\n">> ELSE <<>>

\* Lines 79-88: d, the details text of one test result, or None.
Details(result, version) ==
    LET reason == RewriteReason(Get(result, "reason", <<>>), version)
        traceback == Get(result, "traceback", <<>>)
        text == reason \o Separator(reason, traceback) \o Strip(traceback)
    IN  IF text # <<>> THEN text ELSE None

-----------------------------------------------------------------------------
(* JSONReporter._generate.                                                 *)

IsIdTag(tag) == StartsWith(tag, <<"i", "d", "-">>)

\* A stable ascending sort on the boolean key (False before True).
StableSortByKey(tags) ==
    SelectSeq(tags, LAMBDA tag : ~IsIdTag(tag))
    \o SelectSeq(tags, LAMBDA tag : IsIdTag(tag))

\* A sort that forgets reverse=True's stability: sort ascending, then
\* reverse the result.
SortThenReverse(tags) == Reverse(StableSortByKey(tags))

\* Lines 68-69: sorted(tags, reverse=True, key=...).  With reverse=True the
\* list is reversed, sorted stably in ascending order and reversed again,
\* so equal keys keep their original order.
SortedTags(tags) == Reverse(StableSortByKey(Reverse(tags)))

\* Lines 51-52: strftime under the reporter's TIME_FORMAT.
TIME_FORMAT_JSON == <<"date", "T", "time", "zone">>

TIME_FORMAT_HTML == <<"date", " ", "time">>

strftime(t, format) ==
    [i \in 1..Len(format) |->
        IF format[i] \in DOMAIN t THEN t[format[i]] ELSE format[i]]

\* Lines 50-62: the summary of one verification.
Summary(v, format) ==
    [started_at |-> strftime(v.created_at, format),
     finished_at |-> strftime(v.updated_at, format),
     status |-> v.status,
     run_args |-> v.run_args,
     tests_count |-> v.tests_count,
     tests_duration |-> v.tests_duration,
     skipped |-> v.skipped,
     success |-> v.success,
     expected_failures |-> v.expected_failures,
     unexpected_success |-> v.unexpected_success,
     failures |-> v.failures]

\* An OrderedDict: its keys in insertion order, and its values.
EmptyOrderedDict == [keys |-> <<>>, vals |-> EmptyDict]

OrderedPut(od, key, value) ==
    [keys |-> IF key \in DOMAIN od.vals THEN od.keys
              ELSE Append(od.keys, key),
     vals |-> Put(od.vals, key, value)]

\* Lines 74-77 and 86-90: the per-run entry of one test result.
Entry(result, version) ==
    LET base == ("status" :> result["status"]
                 @@ "duration" :> result["duration"])
    IN  IF Details(result, version) # None
        THEN Put(base, "details", Details(result, version))
        ELSE base

\* Lines 65-72: the record of a test seen for the first time.
NewTest(result) ==
    [tags |-> SortedTags(Get(result, "tags", <<>>)),
     name |-> result["name"],
     by_verification |-> EmptyDict]

\* The per-run entry attached only when the test is first seen.
AddTestFirstSeenOnly(tests, uuid, test_id, result, version) ==
    IF test_id \in DOMAIN tests THEN tests
    ELSE Put(tests, test_id,
             [NewTest(result) EXCEPT
                 !.by_verification = Put(@, uuid, Entry(result, version))])

\* Lines 65-90: one iteration of the loop over v.tests.items().
AddTest(tests, uuid, test_id, result, version) ==
    LET test == IF test_id \in DOMAIN tests THEN tests[test_id]
                ELSE NewTest(result)
    IN  Put(tests, test_id,
            [test EXCEPT
                !.by_verification = Put(@, uuid, Entry(result, version))])

\* Lines 64-90: the loop over v.tests.items(); an iteration touches only
\* the record of its own test_id, so the order of the items is immaterial.
AddTests(tests, v, version) ==
    [test_id \in DOMAIN tests \cup DOMAIN v.tests |->
        IF test_id \in DOMAIN v.tests
        THEN AddTest(tests, v.uuid, test_id, v.tests[test_id],
                     version)[test_id]
        ELSE tests[test_id]]

\* Lines 49-90: the loop over self.verifications, from run i on.
RECURSIVE GenerateLoop(_, _, _, _, _)
GenerateLoop(vs, i, report, format, version) ==
    IF i > Len(vs) THEN report
    ELSE GenerateLoop(vs, i + 1,
            [verifications |->
                OrderedPut(report.verifications, vs[i].uuid,
                           Summary(vs[i], format)),
             tests |-> AddTests(report.tests, vs[i], version)],
            format, version)

\* Lines 43-92.
_generate(vs, format, version) ==
    GenerateLoop(vs, 1,
                 [verifications |-> EmptyOrderedDict, tests |-> EmptyDict],
                 format, version)

\* json.dumps: the text that encodes a value.
json_dumps(value) == [json |-> value]

json_dumps_indent(value) == [json |-> value, indent |-> 4]

\* The test of "if self.output_destination" replaced by "is not None".
IsNotNone(destination) == destination # None

\* Lines 97 and 164: "if self.output_destination".
DestinationGiven(destination) == Truthy(destination)

\* Lines 97-101 and 164-168.
Deliver(destination, raw_report) ==
    IF DestinationGiven(destination)
    THEN ("files" :> (destination :> raw_report) @@ "open" :> destination)
    ELSE ("print" :> raw_report)

\* Lines 94-101.
JSONReporter_generate(vs, destination, version) ==
    Deliver(destination,
            json_dumps_indent(_generate(vs, TIME_FORMAT_JSON, version)))

-----------------------------------------------------------------------------
(* HTMLReporter.generate.                                                  *)

\* 0.001 s, in units of 0.0001 s.
Threshold == 10

\* The details marker written only for a test none of whose entries has
\* details.
MarkDetailsOnlyWithoutAny(test) ==
    LET by == test["by_verification"]
        has == \E uuid \in DOMAIN by : "details" \in DOMAIN by[uuid]
    IN  Put([test EXCEPT !["by_verification"] =
                [uuid \in DOMAIN by |->
                    IF has THEN by[uuid]
                    ELSE Put(by[uuid], "details", None)]],
            "has_details", has)

\* Lines 120-125: has_details, and the explicit null details.
MarkDetails(test) ==
    LET by == test["by_verification"]
    IN  Put([test EXCEPT !["by_verification"] =
                [uuid \in DOMAIN by |->
                    IF "details" \notin DOMAIN by[uuid]
                    THEN Put(by[uuid], "details", None)
                    ELSE by[uuid]]],
            "has_details",
            \E uuid \in DOMAIN by : "details" \in DOMAIN by[uuid])

Zero == Str(<<"0">>)

\* The duration kept as it is, whatever its size.
AdjustKeepRaw(duration) == duration

\* Lines 131-133: the value appended to durations.
Adjust(duration) == IF Float(duration) < Threshold THEN Zero ELSE duration

Last(s) == s[Len(s)]

\* The comparison made with the previous run's duration.
BaselinePrevious(durations) == durations[Len(durations) - 1]

\* Line 140: durations[0].
Baseline(durations) == durations[1]

\* The comparison made for every entry but the first.
ComparedAlways(durations) == Len(durations) > 1

\* Lines 137-138.
Compared(durations) ==
    Len(durations) > 1 /\ ~(durations[1] = Zero /\ Last(durations) = Zero)

\* Lines 140-144: "%s (" % durations[-1], "+" when diff >= 0, "%s)" % diff.
Comparison(durations) ==
    LET diff == Float(Last(durations)) - Float(Baseline(durations))
    IN  [text |-> Last(durations), plus |-> diff >= 0, diff |-> diff]

SetDuration(by, uuid, value) == [by EXCEPT ![uuid]["duration"] = value]

\* Lines 129-145: the loop over uuids, from position i on.
RECURSIVE CompareLoop(_, _, _, _)
CompareLoop(uuids, i, durations, by) ==
    IF i > Len(uuids) THEN [durations |-> durations, by_verification |-> by]
    ELSE IF uuids[i] \notin DOMAIN by
    THEN CompareLoop(uuids, i + 1, durations, by)
    ELSE LET raw == by[uuids[i]]["duration"]
             ds == Append(durations, Adjust(raw))
             by1 == IF Float(raw) < Threshold
                    THEN SetDuration(by, uuids[i], Str(<<>>))
                    ELSE by
             by2 == IF Compared(ds)
                    THEN SetDuration(by1, uuids[i], Comparison(ds))
                    ELSE by1
         IN  CompareLoop(uuids, i + 1, ds, by2)

\* Lines 117-145: one test of the report.
ProcessTest(test, uuids) ==
    LET marked == MarkDetails(test)
    IN  [marked EXCEPT !["by_verification"] =
            CompareLoop(uuids, 1, <<>>, @).by_verification]

\* Lines 147-151.
ShowComparisonNote(tests, uuids) ==
    \E test_id \in DOMAIN tests :
        Len(CompareLoop(uuids, 1, <<>>,
                        tests[test_id]["by_verification"]).durations) > 2

\* Lines 113-157: the context handed to the template.
Context(vs, version) ==
    LET report == _generate(vs, TIME_FORMAT_HTML, version)
        uuids == report.verifications.keys
    IN  [uuids |-> uuids,
         verifications |-> report.verifications,
         tests |-> [test_id \in DOMAIN report.tests |->
                       ProcessTest(report.tests[test_id], uuids)],
         show_comparison_note |-> ShowComparisonNote(report.tests, uuids)]

\* Lines 153-160: the template rendered over the serialised context.
Render(context, include_libs) ==
    [template |-> "verification/report.html",
     data |-> json_dumps(context),
     include_libs |-> include_libs]

TypeError == [raise |-> "TypeError"]

\* Lines 112-168, under the class's INCLUDE_LIBS.  uuids (line 114) is
\* report["verifications"].keys(): a list under Python 2, and under Python 3
\* a view of the keys, on which json.dumps(context) (line 159) raises
\* TypeError after the loops have run.
HTMLReporter_generate(vs, destination, include_libs, version) ==
    IF version = 3 THEN TypeError
    ELSE Deliver(destination, Render(Context(vs, version), include_libs))

-----------------------------------------------------------------------------
(* The reporters as a state machine: a reporter object holds the           *)
(* verifications and the output destination it was built with; generate    *)
(* may be called on it any number of times.                                *)

MaxCalls == 2

\* A dict is an object: two names of one object see each other's stores.
\* An object is named by the place that made it.
Object(kind, run, test_id) == [kind |-> kind, run |-> run, test |-> test_id]

\* v.tests[test_id] of run i, a dict of the caller.
ResultObject(i, test_id) == Object("result", i, test_id)

\* Line 46: the OrderedDict.
VerificationsObject == Object("verifications", 0, "")

\* Line 47: the dict tests.
TestsObject == Object("tests", 0, "")

\* Lines 50-62: the dict display of run i.
SummaryObject(i) == Object("summary", i, "")

\* Lines 70-72: the dict display of a test seen for the first time.
TestObject(test_id) == Object("test", 0, test_id)

\* Line 72: the dict display {}.
ByVerificationObject(test_id) == Object("by_verification", 0, test_id)

\* tests[test_id]["by_verification"][v.uuid] = result: the per-run entry is
\* the caller's dict itself.
EntryIsResult(i, test_id) == ResultObject(i, test_id)

\* Lines 74-77: the dict display of the per-run entry, a new dict in every
\* iteration.
EntryObject(i, test_id) == Object("entry", i, test_id)

\* A store is a subscript assignment: its line, the run in whose iteration
\* it happens (Len(vs) + 1 for the loops of HTMLReporter.generate, which
\* follow every run), the object stored into, the key, and the value, which
\* for a dict is the object.
Store(line, run, object, key, value) ==
    [line |-> line, run |-> run, object |-> object, key |-> key,
     value |-> value]

\* Line 89-90: the store of the details text d, when there is one.
DetailsStores(i, object, d) ==
    IF d # None THEN {Store(90, i, object, "details", d)} ELSE {}

\* Lines 65-90: the stores of the iteration of run i over test_id.
TestStores(vs, i, test_id, version) ==
    (IF \A j \in 1..(i - 1) : test_id \notin DOMAIN vs[j].tests
     THEN {Store(70, i, TestsObject, test_id, TestObject(test_id))}
     ELSE {})
    \cup {Store(74, i, ByVerificationObject(test_id), vs[i].uuid,
                EntryObject(i, test_id))}
    \cup DetailsStores(i, EntryObject(i, test_id),
                       Details(vs[i].tests[test_id], version))

\* Lines 49-90: the stores of _generate.
GenerateStores(vs, version) ==
    UNION {{Store(50, i, VerificationsObject, vs[i].uuid, SummaryObject(i))}
           \cup UNION {TestStores(vs, i, test_id, version) :
                         test_id \in DOMAIN vs[i].tests} :
           i \in DOMAIN vs}

\* Of two stores to one key of one object, the one that happens later.
Later(r, s) == r.run > s.run \/ (r.run = s.run /\ r.line > s.line)

\* The last of the stores to object[key].
Final(stores, object, key) ==
    CHOOSE s \in stores :
        /\ s.object = object /\ s.key = key
        /\ \A r \in stores :
               (r.object = object /\ r.key = key) => ~Later(r, s)

\* Lines 122-123 and 131-145: the stores into test_info, the object
\* test["by_verification"][uuid] holds; before is its value when _generate
\* returns and final its value when the loops end.
TestInfoStores(after, test_info, before, final) ==
    (IF "details" \notin DOMAIN before
     THEN {Store(123, after, test_info, "details", None)}
     ELSE {})
    \cup (IF Float(before["duration"]) < Threshold
          THEN {Store(135, after, test_info, "duration", Str(<<>>))}
          ELSE {})
    \cup (IF "diff" \in DOMAIN final["duration"]
          THEN {Store(145, after, test_info, "duration", final["duration"])}
          ELSE {})

\* Lines 120-145: the stores of one iteration of the loop over the tests;
\* test is the object tests[test_id] holds, before its value when _generate
\* returns and final its value when the loops end.
HTMLTestStores(made, after, test_id, test, before, final) ==
    {Store(120, after, test, "has_details", FALSE)}
    \cup (IF final["has_details"]
          THEN {Store(125, after, test, "has_details", TRUE)}
          ELSE {})
    \cup UNION {TestInfoStores(
                    after,
                    Final(made, ByVerificationObject(test_id), uuid).value,
                    before["by_verification"][uuid],
                    final["by_verification"][uuid]) :
                uuid \in DOMAIN before["by_verification"]}

\* Lines 117-145: the stores of the loops of HTMLReporter.generate, after
\* the stores made of _generate, over the tests of its report and their
\* values in the context.
HTMLStores(made, after, tests, processed) ==
    UNION {HTMLTestStores(made, after, test_id,
                          Final(made, TestsObject, test_id).value,
                          tests[test_id], processed[test_id]) :
           test_id \in DOMAIN tests}

\* Lines 94-95: the stores of JSONReporter.generate.
JSONReporter_stores(vs, version) == GenerateStores(vs, version)

\* Lines 112-151: the stores of HTMLReporter.generate; they precede
\* json.dumps (line 159), so they happen under either interpreter.
HTMLReporter_stores(vs, version) ==
    GenerateStores(vs, version)
    \cup HTMLStores(GenerateStores(vs, version), Len(vs) + 1,
                    _generate(vs, TIME_FORMAT_HTML, version).tests,
                    Context(vs, version).tests)

\* The dict value of object after the stores.
ObjectAfter(object, value, stores) ==
    LET keys == {s.key : s \in {r \in stores : r.object = object}}
    IN  [key \in DOMAIN value \cup keys |->
            IF key \in keys THEN Final(stores, object, key).value
            ELSE value[key]]

\* v.tests[test_id] of run i after a call that made the stores.
ResultAfter(i, test_id, result, stores) ==
    ObjectAfter(ResultObject(i, test_id), result, stores)

\* self.verifications after a call that made the stores.  The call stores
\* into dicts only: v.tests itself, v.run_args (the report holds the
\* caller's object, line 54) and the list result["tags"] (sorted(), line
\* 68, builds a new list) receive no store.
VerificationsAfter(vs, stores) ==
    [i \in DOMAIN vs |->
        [vs[i] EXCEPT !.tests =
            [test_id \in DOMAIN @ |->
                ResultAfter(i, test_id, @[test_id], stores)]]]

JSONGenerate ==
    /\ calls < MaxCalls
    /\ results' = Put(results, "json",
                      JSONReporter_generate(verifications,
                                            output_destination, python))
    /\ verifications' =
           VerificationsAfter(verifications,
                              JSONReporter_stores(verifications, python))
    /\ calls' = calls + 1
    /\ UNCHANGED <<output_destination, python>>

HTMLGenerate ==
    /\ calls < MaxCalls
    /\ results' = Put(results, "html",
                      HTMLReporter_generate(verifications,
                                            output_destination, FALSE, python))
    /\ verifications' =
           VerificationsAfter(verifications,
                              HTMLReporter_stores(verifications, python))
    /\ calls' = calls + 1
    /\ UNCHANGED <<output_destination, python>>

HTMLStaticGenerate ==
    /\ calls < MaxCalls
    /\ results' = Put(results, "html-static",
                      HTMLReporter_generate(verifications,
                                            output_destination, TRUE, python))
    /\ verifications' =
           VerificationsAfter(verifications,
                              HTMLReporter_stores(verifications, python))
    /\ calls' = calls + 1
    /\ UNCHANGED <<output_destination, python>>

Next == JSONGenerate \/ HTMLGenerate \/ HTMLStaticGenerate

-----------------------------------------------------------------------------
(* The inputs: verification runs and their test results.                   *)

MaxRuns == 2

MaxDurationRuns == 3

MaxTags == 4

MaxDigits == 2

MaxTail == 2

MaxTraceback == 2

MaxDestination == 2

UuidNames == <<"u1", "u2", "u3", "u4", "u5", "u6">>

Timestamp(day) == [date |-> day, time |-> "10:00:00", zone |-> "+0000"]

Run(uuid, tests) ==
    [uuid |-> uuid,
     created_at |-> Timestamp("2017-01-01"),
     updated_at |-> Timestamp("2017-01-02"),
     status |-> "finished",
     run_args |-> [pattern |-> "set=smoke"],
     tests_count |-> Cardinality(DOMAIN tests),
     tests_duration |-> Num(0),
     skipped |-> 0,
     success |-> Cardinality(DOMAIN tests),
     expected_failures |-> 0,
     unexpected_success |-> 0,
     failures |-> 0,
     tests |-> tests]

Result(name, status, duration) ==
    ("name" :> name @@ "status" :> status @@ "duration" :> Num(duration))

\* Every dict from some of the ids to the given results.
TestMaps(ids, rs) == UNION {[S -> rs] : S \in SUBSET ids}

\* Sequences of n runs, the i-th drawn from runsAt[i].
RECURSIVE RunSeqs(_, _)
RunSeqs(n, runsAt) ==
    IF n = 0 THEN {<<>>}
    ELSE {Append(vs, v) : vs \in RunSeqs(n - 1, runsAt), v \in runsAt[n]}

RunSeqsUpTo(n, runsAt) == UNION {RunSeqs(k, runsAt) : k \in 0..n}

\* Strings over an alphabet, of length at most n.
StringsUpTo(alphabet, n) == UNION {[1..k -> alphabet] : k \in 0..n}

IdTag1 == <<"i", "d", "-", "1">>

IdTag2 == <<"i", "d", "-", "2">>

FooTag == <<"f", "o", "o">>

BarTag == <<"b", "a", "r">>

Flaky == <<"f", "l", "a", "k", "y">>

Trace == <<"T", "r", "a", "c", "e", "\n", "l", "i", "n", "e", "2">>

SkipReason(space, number, tail) ==
    SkipHead \o space \o number \o SkipTail \o tail

\* Aggregation: up to MaxRuns runs over two tests; a run carries its own
\* uuid or repeats the first run's.
ResultsMain ==
    {Result("test_a", "success", 15000) @@ "tags" :> <<FooTag, IdTag1>>,
     Result("test_a", "fail", 5)
        @@ "reason" :> Flaky @@ "traceback" :> Trace}

RunsMain ==
    [i \in 1..MaxRuns |->
        {Run(uuid, tests) :
            uuid \in {UuidNames[i], UuidNames[1]},
            tests \in TestMaps({"t1", "t2"}, ResultsMain)}]

InputsMain == RunSeqsUpTo(MaxRuns, RunsMain)

\* Destinations: None, and the strings of at most MaxDestination characters.
Destinations == {None} \cup StringsUpTo({"r", "/"}, MaxDestination)

InputsDestination ==
    RunSeqsUpTo(1, [i \in 1..1 |->
        {Run(UuidNames[i], tests) : tests \in TestMaps({"t1", "t2"},
                                                       ResultsMain)}])

\* Skip reasons around SKIP_RE, in one run of one test.
Reasons ==
    {<<>>, Flaky, <<"x">> \o SkipReason(<<" ">>, <<"1">>, <<".">>)}
    \cup {SkipReason(space, number, tail) :
            space \in {<<>>, <<" ">>, <<" ", " ">>},
            number \in StringsUpTo({"1", "2", KhmerOne}, MaxDigits),
            tail \in StringsUpTo({".", "1", "\n"}, MaxTail)}

InputsReason ==
    {<<Run("u1", "t1" :> (Result("test_a", "skip", 0) @@ extra))>> :
        extra \in {EmptyDict} \cup {"reason" :> reason : reason \in Reasons}}

\* Reasons and tracebacks, in one run of one test.
Tracebacks ==
    StringsUpTo({" ", "\n", VerticalTab, OghamSpace, "T"}, MaxTraceback)
    \cup {Trace}

InputsDetails ==
    {<<Run("u1", "t1" :> (Result("test_a", "fail", 20000) @@ r @@ t))>> :
        r \in {EmptyDict}
              \cup {"reason" :> reason :
                      reason \in {<<>>, <<" ">>, Flaky,
                                  SkipReason(<<" ">>, <<"7">>, <<".">>)}},
        t \in {EmptyDict}
              \cup {"traceback" :> traceback : traceback \in Tracebacks}}

\* Tags: the first run's tags are any list of at most MaxTags tags; a
\* second run carries the same test with other tags.
TagLists == StringsUpTo({IdTag1, IdTag2, FooTag, BarTag}, MaxTags)

InputsTags ==
    {first \o second :
        first \in {<<>>}
            \cup {<<Run("u1", "t1" :> Result("test_a", "success", 20000))>>}
            \cup {<<Run("u1", "t1" :> (Result("test_a", "success", 20000)
                                       @@ "tags" :> tags))>> :
                    tags \in TagLists},
        second \in {<<>>,
                    <<Run("u2", "t1" :> (Result("test_a", "success", 20000)
                                         @@ "tags" :> <<BarTag, IdTag2>>))>>}}

\* Durations: up to MaxDurationRuns runs with distinct uuids, in each of which the
\* one test is absent or has one of the durations.
DurationValues == {0, 5, 9, 10, 20000, 50000}

RunsDuration ==
    [i \in 1..MaxDurationRuns |->
        {Run(UuidNames[i], EmptyDict)}
        \cup {Run(UuidNames[i], "t1" :> Result("test_a", "success", d)) :
                d \in DurationValues}]

InputsDuration == RunSeqsUpTo(MaxDurationRuns, RunsDuration)

-----------------------------------------------------------------------------
(* Specifications, one per family of inputs.                               *)

InitWith(inputs, destinations) ==
    /\ verifications \in inputs
    /\ output_destination \in destinations
    /\ python \in {2, 3}
    /\ results = EmptyDict
    /\ calls = 0

Report == <<"r", "e", "p", "o", "r", "t">>

Init == InitWith(InputsMain, {None, Report})

Spec == Init /\ [][Next]_vars

InitDestination == InitWith(InputsDestination, Destinations)

SpecDestination == InitDestination /\ [][Next]_vars

InitReason == InitWith(InputsReason, {None})

SpecReason == InitReason /\ [][Next]_vars

InitDetails == InitWith(InputsDetails, {None})

SpecDetails == InitDetails /\ [][Next]_vars

InitTags == InitWith(InputsTags, {None})

SpecTags == InitTags /\ [][Next]_vars

InitDuration == InitWith(InputsDuration, {None})

SpecDuration == InitDuration /\ [][Next]_vars

-----------------------------------------------------------------------------
(* Reading a generate result back.                                         *)

\* The reporters whose last generate call returned a result.
Returned == {k \in DOMAIN results : "raise" \notin DOMAIN results[k]}

HtmlReturned == Returned \cap {"html", "html-static"}

\* The text a result prints or writes.
RawReport(result) ==
    IF "print" \in DOMAIN result THEN result["print"]
    ELSE result["files"][result["open"]]

\* The "tests" mapping serialised in the result of reporter k.
TestsOf(k) ==
    IF k = "json" THEN RawReport(results[k]).json.tests
    ELSE RawReport(results[k]).data.json.tests

RunsWith(test_id) ==
    {i \in DOMAIN verifications : test_id \in DOMAIN verifications[i].tests}

Min(S) == CHOOSE x \in S : \A y \in S : x <= y

FirstRunWith(test_id) == Min(RunsWith(test_id))

AllTestIds == UNION {DOMAIN verifications[i].tests : i \in DOMAIN verifications}

DistinctUuids ==
    \A i, j \in DOMAIN verifications :
        i # j => verifications[i].uuid # verifications[j].uuid

RawDuration(i, test_id) == verifications[i].tests[test_id]["duration"].num

\* A duration as it enters a comparison: 0 when below the threshold.
Shown(d) == IF d < Threshold THEN 0 ELSE d

EntryOf(k, i, test_id) ==
    TestsOf(k)[test_id]["by_verification"][verifications[i].uuid]

HasDelta(entry) == "diff" \in DOMAIN entry["duration"]

-----------------------------------------------------------------------------
(* Claims.                                                                 *)

\* C1: for runs with pairwise distinct uuids, the keys of "tests" are
\* exactly the test identifiers of all runs, and the keys of each test's
\* "by_verification" are exactly the uuids of the runs that contain the
\* test, one entry per such run.
C1_AggregationKeys ==
    \A k \in Returned :
        DistinctUuids =>
            /\ DOMAIN TestsOf(k) = AllTestIds
            /\ \A t \in AllTestIds :
                /\ DOMAIN TestsOf(k)[t]["by_verification"]
                     = {verifications[i].uuid : i \in RunsWith(t)}
                /\ Cardinality(DOMAIN TestsOf(k)[t]["by_verification"])
                     = Cardinality(RunsWith(t))

C1_Witness ==
    /\ "json" \in Returned
    /\ Len(verifications) = 2
    /\ DistinctUuids
    /\ RunsWith("t1") = {2}
    /\ RunsWith("t2") = {1, 2}


\* C2 as stated: every destination other than None, the empty string
\* included, counts as supplied and gives exactly "files" and "open"; no
\* destination gives exactly "print".
C2_EveryDestinationSupplied ==
    \A k \in Returned :
        IF output_destination = None
        THEN DOMAIN results[k] = {"print"}
        ELSE /\ DOMAIN results[k] = {"files", "open"}
             /\ DOMAIN results[k]["files"] = {output_destination}
             /\ results[k]["open"] = output_destination

\* C2, amended: a destination that is a non-empty string gives exactly
\* "files" (with that destination as its only key) and "open" (equal to
\* it); None and the empty string give exactly "print"; "print" never comes
\* together with "files" or "open".
C2_DestinationContract ==
    \A k \in Returned :
        /\ ~({"print"} \subseteq DOMAIN results[k]
             /\ DOMAIN results[k] \cap {"files", "open"} # {})
        /\ IF output_destination = None \/ output_destination = <<>>
           THEN DOMAIN results[k] = {"print"}
           ELSE /\ DOMAIN results[k] = {"files", "open"}
                /\ DOMAIN results[k]["files"] = {output_destination}
                /\ results[k]["open"] = output_destination

C2_Witness ==
    /\ output_destination = <<>>
    /\ Returned = {"json", "html"}
    /\ DOMAIN results["json"] = {"print"}
    /\ DOMAIN results["html"] = {"print"}

\* The reason with only the matched bug number replaced by its link.
RewrittenInPlace(reason) ==
    LET number == SKIP_RE_match(reason, python)
        start == Len(SkipHead)
                 + (IF reason[Len(SkipHead) + 1] = " " THEN 1 ELSE 0)
    IN  SubSeq(reason, 1, start) \o LP_BUG_LINK(number)
        \o Drop(reason, start + Len(number))

\* C3: when the reason matches SKIP_RE, the details text is the reason with
\* only the bug number of the pattern replaced by its link; every other
\* character, another occurrence of the same digits included, is unchanged.
C3_OnlyBugNumberRewritten ==
    \A k \in Returned : \A i \in DOMAIN verifications :
        \A t \in DOMAIN verifications[i].tests :
            LET result == verifications[i].tests[t]
            IN  ("reason" \in DOMAIN result
                 /\ "traceback" \notin DOMAIN result
                 /\ SKIP_RE_match(result["reason"], python) # None)
                => EntryOf(k, i, t)["details"]
                     = RewrittenInPlace(result["reason"])

\* C4: the details text is the rewritten reason followed by the stripped
\* traceback, separated by a blank line exactly when both the reason and
\* the stripped traceback are non-empty; "details" is present exactly when
\* that text is non-empty.
C4_SeparatorOnlyBetweenNonEmpty ==
    "json" \in Returned =>
        \A i \in DOMAIN verifications :
            \A t \in DOMAIN verifications[i].tests :
                LET result == verifications[i].tests[t]
                    reason == RewriteReason(Get(result, "reason", <<>>),
                                            python)
                    stripped == Strip(Get(result, "traceback", <<>>))
                    sep == IF reason # <<>> /\ stripped # <<>>
                           THEN <<"\n", "\n">> ELSE <<>>
                    text == reason \o sep \o stripped
                    entry == EntryOf("json", i, t)
                IN  /\ "details" \in DOMAIN entry <=> text # <<>>
                    /\ "details" \in DOMAIN entry => entry["details"] = text

IdTagsFirst(tags) ==
    SelectSeq(tags, LAMBDA tag : StartsWith(tag, <<"i", "d", "-">>))
    \o SelectSeq(tags, LAMBDA tag : ~StartsWith(tag, <<"i", "d", "-">>))

\* C5: a test's "tags" are the tags it has in the first input run that
\* contains it, with the tags starting with "id-" before all others and
\* the input order kept inside each of the two groups; the tags of the
\* test in later runs do not change them.
C5_TagsIdFirstStable ==
    \A k \in Returned : \A t \in AllTestIds :
        TestsOf(k)[t]["tags"]
          = IdTagsFirst(Get(verifications[FirstRunWith(t)].tests[t],
                            "tags", <<>>))

C5_Witness ==
    /\ "json" \in Returned
    /\ Len(verifications) = 2
    /\ RunsWith("t1") = {1, 2}
    /\ Get(verifications[1].tests["t1"], "tags", <<>>)
         = <<FooTag, IdTag2, BarTag, IdTag1>>
    /\ verifications[2].tests["t1"]["tags"] = <<BarTag, IdTag2>>
    /\ TestsOf("json")["t1"]["tags"] = <<IdTag2, IdTag1, FooTag, BarTag>>


\* C6 as stated: the baseline of every delta is the duration the test had
\* in the first run of the input order.
C6_BaselineIsFirstInputRun ==
    \A k \in HtmlReturned : \A t \in AllTestIds :
        \A i \in RunsWith(t) :
            (i > 1 /\ HasDelta(EntryOf(k, i, t)))
            => /\ 1 \in RunsWith(t)
               /\ EntryOf(k, i, t)["duration"].diff
                    = Shown(RawDuration(i, t)) - Shown(RawDuration(1, t))

\* C6, amended: the baseline of every delta is the duration the test had
\* in the first run of the input order that contains the test (the first
\* input run only when the test is present there), a duration below 0.001
\* entering the subtraction as 0; it is never the duration of a later run.
C6_BaselineIsFirstRunWithTest ==
    \A k \in HtmlReturned : \A t \in AllTestIds :
        \A i \in RunsWith(t) :
            HasDelta(EntryOf(k, i, t))
            => /\ i > FirstRunWith(t)
               /\ EntryOf(k, i, t)["duration"].diff
                    = Shown(RawDuration(i, t))
                      - Shown(RawDuration(FirstRunWith(t), t))

C6_Witness ==
    /\ "html" \in Returned
    /\ Len(verifications) = 3
    /\ RunsWith("t1") = {2, 3}
    /\ RawDuration(2, "t1") = 50000
    /\ RawDuration(3, "t1") = 20000
    /\ EntryOf("html", 3, "t1")["duration"]
         = [text |-> Num(20000), plus |-> FALSE, diff |-> -30000]

\* C7 as stated: the delta is computed against the first run's raw
\* duration, also when that duration is below 0.001 and shown as "0".
C7_DeltaAgainstRawFirst ==
    \A k \in HtmlReturned : \A t \in AllTestIds :
        \A i \in RunsWith(t) :
            (HasDelta(EntryOf(k, i, t))
             /\ RawDuration(FirstRunWith(t), t) < Threshold)
            => EntryOf(k, i, t)["duration"].diff
                 = RawDuration(i, t) - RawDuration(FirstRunWith(t), t)

\* C7, amended: when the first duration of a test is below 0.001 it enters
\* the subtraction as 0, not as its raw value: the delta of a later run is
\* that run's own duration, shown with a "+"; for durations
\* [0.0005, 2.0, 5.0] the deltas are 2.0 and 5.0.
C7_DeltaAgainstZeroedFirst ==
    \A k \in HtmlReturned : \A t \in AllTestIds :
        \A i \in RunsWith(t) :
            (HasDelta(EntryOf(k, i, t))
             /\ RawDuration(FirstRunWith(t), t) < Threshold)
            => EntryOf(k, i, t)["duration"]
                 = [text |-> Num(RawDuration(i, t)), plus |-> TRUE,
                    diff |-> RawDuration(i, t)]

C7_Witness ==
    /\ "html" \in Returned
    /\ Len(verifications) = 3
    /\ RunsWith("t1") = {1, 2, 3}
    /\ RawDuration(1, "t1") = 5
    /\ RawDuration(2, "t1") = 20000
    /\ RawDuration(3, "t1") = 50000
    /\ EntryOf("html", 1, "t1")["duration"] = Str(<<>>)
    /\ EntryOf("html", 2, "t1")["duration"].diff = 20000
    /\ EntryOf("html", 3, "t1")["duration"].diff = 50000

\* C8: after HTMLReporter.generate, has_details is true exactly when an
\* entry of the test carried details in the aggregated report; every entry
\* has a "details" key, None exactly for the entries that had no details
\* and otherwise the unchanged details text.
C8_HasDetails ==
    \A k \in HtmlReturned :
        LET aggregated ==
                _generate(verifications, TIME_FORMAT_HTML, python).tests
        IN  \A t \in DOMAIN aggregated :
                LET before == aggregated[t]["by_verification"]
                    after == TestsOf(k)[t]["by_verification"]
                IN  /\ TestsOf(k)[t]["has_details"]
                         <=> \E u \in DOMAIN before :
                                 "details" \in DOMAIN before[u]
                    /\ DOMAIN after = DOMAIN before
                    /\ \A u \in DOMAIN before :
                        /\ "details" \in DOMAIN after[u]
                        /\ after[u]["details"] = None
                             <=> "details" \notin DOMAIN before[u]
                        /\ "details" \in DOMAIN before[u]
                             => after[u]["details"] = before[u]["details"]

C8_Witness ==
    /\ "html" \in Returned
    /\ Len(verifications) = 2
    /\ DistinctUuids
    /\ RunsWith("t1") = {1, 2}
    /\ TestsOf("html")["t1"]["has_details"]
    /\ EntryOf("html", 1, "t1")["details"] = None
    /\ EntryOf("html", 2, "t1")["details"] = Flaky \o <<"\n", "\n">> \o Trace

\* C9: a generate call leaves the verification records as they were (none
\* of its stores reaches a dict of the caller), and a reporter called again
\* gives the output it gave before.
C9_Idempotent ==
    [][/\ verifications' = verifications
       /\ \A k \in DOMAIN results :
              k \in DOMAIN results' /\ results'[k] = results[k]]_vars

C9_Witness ==
    /\ calls = 2
    /\ Returned = {"html"}
    /\ Len(verifications) = 2
    /\ RunsWith("t1") = {1, 2}
    /\ Get(verifications[1].tests["t1"], "tags", <<>>) = <<FooTag, IdTag1>>
    /\ \E s \in HTMLReporter_stores(verifications, python) :
           s.line = 123 /\ s.object = EntryObject(1, "t1")
    /\ \E s \in HTMLReporter_stores(verifications, python) :
           s.line = 90 /\ s.object = EntryObject(2, "t1")

\* C10 as stated: an entry whose duration is below 0.001 has its duration
\* blanked, and an entry has a delta exactly when it is not the test's
\* first entry and not both durations are below 0.001.
C10_SmallDurationBlanked ==
    \A k \in HtmlReturned : \A t \in AllTestIds :
        \A i \in RunsWith(t) :
            /\ RawDuration(i, t) < Threshold
                 => EntryOf(k, i, t)["duration"] = Str(<<>>)
            /\ HasDelta(EntryOf(k, i, t))
                 <=> /\ i # FirstRunWith(t)
                     /\ ~(RawDuration(i, t) < Threshold
                          /\ RawDuration(FirstRunWith(t), t) < Threshold)

\* C10, amended: an entry has a delta exactly when it is not the test's
\* first entry and not both durations are below 0.001; an entry whose
\* duration is below 0.001 is blanked when it has no delta, and otherwise
\* shows "0" followed by the delta; an entry of 0.001 or more without a
\* delta keeps its duration.
C10_SmallDurationBlankedUnlessCompared ==
    \A k \in HtmlReturned : \A t \in AllTestIds :
        \A i \in RunsWith(t) :
            LET duration == EntryOf(k, i, t)["duration"]
                small == RawDuration(i, t) < Threshold
            IN  /\ HasDelta(EntryOf(k, i, t))
                     <=> /\ i # FirstRunWith(t)
                         /\ ~(small
                              /\ RawDuration(FirstRunWith(t), t) < Threshold)
                /\ (small /\ ~HasDelta(EntryOf(k, i, t)))
                     => duration = Str(<<>>)
                /\ (small /\ HasDelta(EntryOf(k, i, t)))
                     => duration.text = Zero
                /\ (~small /\ ~HasDelta(EntryOf(k, i, t)))
                     => duration = Num(RawDuration(i, t))

C10_Witness ==
    /\ "html" \in Returned
    /\ Len(verifications) = 3
    /\ RunsWith("t1") = {1, 2, 3}
    /\ RawDuration(1, "t1") = 20000
    /\ RawDuration(2, "t1") = 5
    /\ RawDuration(3, "t1") = 20000
    /\ EntryOf("html", 1, "t1")["duration"] = Num(20000)
    /\ EntryOf("html", 2, "t1")["duration"]
         = [text |-> Zero, plus |-> FALSE, diff |-> -20000]
    /\ EntryOf("html", 3, "t1")["duration"]
         = [text |-> Num(20000), plus |-> TRUE, diff |-> 0]

====
